---------------------------- MODULE Spec2Model ----------------------------
(***************************************************************************)
(* A state-machine model of load_saved_calculation.py: the loader          *)
(* load_calculated_data (directory resolution, the axis, spectrum and      *)
(* slice reads, the slice assignment into the zero-initialised grid) and   *)
(* the script body that selects a slice of the grid, normalises it and     *)
(* draws the two panels.                                                   *)
(*                                                                         *)
(* Python indices are kept: arrays are functions over 0-based index        *)
(* tuples.  An ndarray is [shape |-> <<d1, ..>>, val |-> [index -> value]]. *)
(* The numpy calls are modelled by what they do on the values that reach   *)
(* them: np.loadtxt squeezes one-row, one-column and one-value tables,     *)
(* a slice assignment broadcasts its right-hand side, 0/0 is NaN.          *)
(***************************************************************************)
EXTENDS Integers, Sequences, FiniteSets, TLC

\* ------------------------------------------------------------- bounds
MaxRows == 2
MaxCols == 2
MaxN == 2
MaxW == 3
MaxSeed == 2
MaxPeaks == 7

\* ------------------------------------------------------ program constants
\* npeaks = 2 when -n is not given
DefaultPeaks == 2

\* clrs = ['C0', 'C1', 'C2', 'C3', 'C4', 'C5']
clrs == [k \in 0..5 |-> k]

\* -------------------------------------------------------------- paths
\* A directory path is the sequence of its components.
join(a, b) == a \o b

FallbackRoot == <<"calculations">>

Name == <<"run">>

Qualified == join(FallbackRoot, Name)

\* A file name: 'l0.txt', ..., and 'Delta_' + str(i) + '.txt' as ("Delta", i).
FileName(base, idx) == [base |-> base, idx |-> idx]

L0File == FileName("l0", -1)

DlFile == FileName("dl", -1)

WFile == FileName("w", -1)

SpectrumFile == FileName("spectrum", -1)

DeltaFile(k) == FileName("Delta", k)

NoFile == FileName("none", -1)

FilePath(dir, file) == [dir |-> dir, file |-> file]

NoPath == FilePath(<<>>, NoFile)

\* ------------------------------------------------------------- arrays
Range(f) == {f[x] : x \in DOMAIN f}

Idx1(n) == {<<k>> : k \in 0..(n - 1)}

Idx2(nr, nc) == {<<r, c>> : r \in 0..(nr - 1), c \in 0..(nc - 1)}

Idx3(nr, nc, n) == {<<r, c, k>> : r \in 0..(nr - 1), c \in 0..(nc - 1), k \in 0..(n - 1)}

NoArray == [shape |-> <<0>>, val |-> [x \in {} |-> 0]]

\* ndarray.size
Size(a) ==
    IF Len(a.shape) = 0 THEN 1
    ELSE IF Len(a.shape) = 1 THEN a.shape[1]
    ELSE a.shape[1] * a.shape[2]

\* np.max / np.min of an integer array
NpMax(a) == CHOOSE m \in Range(a.val) : \A x \in Range(a.val) : x <= m

NpMin(a) == CHOOSE m \in Range(a.val) : \A x \in Range(a.val) : m <= x

\* ----------------------------------------------------- files on disk
\* A file body: a table of numbers (nr rows of nc values) or text that is
\* not numeric.
Table(nr, nc, cell) == [numeric |-> TRUE, nr |-> nr, nc |-> nc, cell |-> cell]

TextBody == [numeric |-> FALSE, nr |-> 0, nc |-> 0, cell |-> [x \in {} |-> 0]]

\* A one-dimensional array is saved one value per line.
AxisTable(vals) ==
    Table(Cardinality(DOMAIN vals), 1,
          [x \in Idx2(Cardinality(DOMAIN vals), 1) |-> vals[x[1]]])

\* np.loadtxt on a numeric table (ndmin = 0): axes of length one are squeezed.
Squeeze(t) ==
    IF t.nr = 1 /\ t.nc = 1
    THEN [shape |-> <<>>, val |-> [x \in {<<>>} |-> t.cell[<<0, 0>>]]]
    ELSE IF t.nr = 1
    THEN [shape |-> <<t.nc>>, val |-> [x \in Idx1(t.nc) |-> t.cell[<<0, x[1]>>]]]
    ELSE IF t.nc = 1
    THEN [shape |-> <<t.nr>>, val |-> [x \in Idx1(t.nr) |-> t.cell[<<x[1], 0>>]]]
    ELSE [shape |-> <<t.nr, t.nc>>, val |-> t.cell]

\* Whether an array of shape s broadcasts into a rows x cols target
\* (dimensions aligned from the right; each is the target's or 1).
Broadcastable(s, nr, nc) ==
    IF Len(s) = 0 THEN TRUE
    ELSE IF Len(s) = 1 THEN s[1] = nc \/ s[1] = 1
    ELSE IF Len(s) = 2 THEN (s[1] = nr \/ s[1] = 1) /\ (s[2] = nc \/ s[2] = 1)
    ELSE FALSE

\* The element of a that lands at (r, c) of the target when a is broadcast.
BroadcastAt(a, r, c) ==
    IF Len(a.shape) = 0 THEN a.val[<<>>]
    ELSE IF Len(a.shape) = 1 THEN a.val[<<IF a.shape[1] = 1 THEN 0 ELSE c>>]
    ELSE a.val[<<IF a.shape[1] = 1 THEN 0 ELSE r, IF a.shape[2] = 1 THEN 0 ELSE c>>]


\* ------------------------------------------- saved calculations (inputs)
\* Axis samples written by the calculation: l0 = 1, 2, ..; dl = 10, 20, ..
L0Vals(n) == [k \in 0..(n - 1) |-> k + 1]

DlVals(n) == [k \in 0..(n - 1) |-> 10 * (k + 1)]

\* The tertiary axes: every strictly ascending sequence of 1..MaxN samples
\* drawn from 1..MaxW.
WAxes ==
    {s \in UNION {[0..(n - 1) -> 1..MaxW] : n \in 1..MaxN} :
        \A a, b \in DOMAIN s : a < b => s[a] < s[b]}

\* Synthetic slice values: seed 0 is an all-zero slice, the others hold
\* pairwise different values in row-major order.
Cell(seed, r, c) == IF seed = 0 THEN 0 ELSE seed - 1 + MaxCols * r + c

SliceSeed(base, k) == (base + k) % (MaxSeed + 1)

SliceTable(nr, nc, seed) ==
    Table(nr, nc, [x \in Idx2(nr, nc) |-> Cell(seed, x[1], x[2])])

\* The reference spectrum: two rows of (wavelength, intensity).
SpectrumTable(tag) ==
    Table(2, 2, [x \in Idx2(2, 2) |-> IF x[2] = 0 THEN 400 + 100 * x[1] ELSE tag + x[1]])

\* What may be wrong with one file of a directory.
NoDefect == [file |-> NoFile, how |-> "none"]

Defects(n) ==
    {NoDefect}
    \cup {[file |-> f, how |-> h] :
            f \in {L0File, DlFile, WFile, SpectrumFile}, h \in {"missing", "text"}}
    \cup {[file |-> DeltaFile(k), how |-> h] :
            k \in 0..(n - 1), h \in {"missing", "text", "row", "col", "scalar", "tall"}}

\* The body of file f in a saved directory with the given axes and seeds.
FileBody(f, nr, nc, wv, base, tag, defect) ==
    IF defect.file = f /\ defect.how = "text" THEN TextBody
    ELSE IF f = L0File THEN AxisTable(L0Vals(nc))
    ELSE IF f = DlFile THEN AxisTable(DlVals(nr))
    ELSE IF f = WFile THEN AxisTable(wv)
    ELSE IF f = SpectrumFile THEN SpectrumTable(tag)
    ELSE IF defect.file # f THEN SliceTable(nr, nc, SliceSeed(base, f.idx))
    ELSE IF defect.how = "row" THEN SliceTable(1, nc, SliceSeed(base, f.idx))
    ELSE IF defect.how = "col" THEN SliceTable(nr, 1, SliceSeed(base, f.idx))
    ELSE IF defect.how = "scalar" THEN SliceTable(1, 1, SliceSeed(base, f.idx))
    ELSE SliceTable(nr + 1, nc, SliceSeed(base, f.idx))

\* A saved directory: its files, by name.
MkDir(nr, nc, wv, base, tag, defect) ==
    LET n == Cardinality(DOMAIN wv)
        all == {L0File, DlFile, WFile, SpectrumFile} \cup {DeltaFile(k) : k \in 0..(n - 1)}
        present == IF defect.how = "missing" THEN all \ {defect.file} ELSE all
    IN [f \in present |-> FileBody(f, nr, nc, wv, base, tag, defect)]

SavedDirs ==
    {MkDir(nr, nc, wv, base, 1, defect) :
        nr \in 1..MaxRows, nc \in 1..MaxCols, base \in 0..MaxSeed,
        <<wv, defect>> \in {<<x, y>> \in WAxes \X Defects(MaxN) :
                            y \in Defects(Cardinality(DOMAIN x))}}

ValidDirs ==
    {MkDir(nr, nc, wv, base, 1, NoDefect) :
        nr \in 1..MaxRows, nc \in 1..MaxCols, wv \in WAxes, base \in 0..MaxSeed}

\* A second, complete directory that differs from every one above.
OtherDir == MkDir(1, 2, [k \in 0..1 |-> k + 1], MaxSeed, 7, NoDefect)

\* The command line: width and npeaks are None when not given.
NoArg == [given |-> FALSE, val |-> 0]

Arg(v) == [given |-> TRUE, val |-> v]

\* ------------------------------------------------------------- state
VARIABLES
    fs,             \* directory path -> (file name -> body); its domain exists
    args,           \* savefile, width, npeaks
    pc,             \* the statement about to run
    directory,      \* load_calculated_data's parameter
    reads,          \* the files opened so far
    l0, dl, w, spectrum,
    rows, cols, N,
    Delta,          \* the grid, over (row, col, i)
    i,              \* the slice loop's iterations done
    loaded,         \* the slice indices assigned so far
    ret,            \* what load_calculated_data returned: "pending", "None", "tuple"
    exc,            \* the exception that ended the run, if any
    printed,        \* console output
    display_width, npeaks, peak,
    wi,             \* the selected slice index
    d,              \* the normalised slice
    j,              \* the peak loops' index
    drawn           \* the plotting calls made, in order

vars == <<fs, args, pc, directory, reads, l0, dl, w, spectrum, rows, cols, N,
          Delta, i, loaded, ret, exc, printed, display_width, npeaks, peak,
          wi, d, j, drawn>>

loadVars == <<directory, reads, l0, dl, w, spectrum, rows, cols, N, Delta, i, loaded, ret>>

viewVars == <<display_width, npeaks, peak, wi, d, j, drawn>>

NoExc == [type |-> "none", line |-> 0, path |-> NoPath]

Raise(type, line, path) == [type |-> type, line |-> line, path |-> path]

\* os.path.exists on a directory
exists(p) == p \in DOMAIN fs

FileExists(p) == exists(p.dir) /\ p.file \in DOMAIN fs[p.dir]

\* np.loadtxt(path): the array read from a file that exists and is numeric.
Loadtxt(p) == Squeeze(fs[p.dir][p.file])

\* What np.loadtxt raises on path p, or NoExc: a missing file is reported by
\* name, text that is not a number by its content only.
LoadtxtError(p, line) ==
    IF ~FileExists(p) THEN Raise("FileNotFoundError", line, p)
    ELSE IF ~fs[p.dir][p.file].numeric THEN Raise("ValueError", line, NoPath)
    ELSE NoExc

Start ==
    /\ pc = "resolve"
    /\ directory = args.savefile
    /\ reads = {}
    /\ l0 = NoArray /\ dl = NoArray /\ w = NoArray /\ spectrum = NoArray
    /\ rows = 0 /\ cols = 0 /\ N = 0
    /\ Delta = [x \in {} |-> 0]
    /\ i = 0
    /\ loaded = {}
    /\ ret = "pending"
    /\ exc = NoExc
    /\ printed = <<>>
    /\ display_width = 0 /\ npeaks = 0
    /\ peak = <<>>
    /\ wi = -1
    /\ d = [x \in {} |-> 0]
    /\ j = 0
    /\ drawn = <<>>

\* Any state of the disk, default display options.
InitLoad ==
    /\ \E atTop \in BOOLEAN, topThere \in BOOLEAN, fbThere \in BOOLEAN, sd \in SavedDirs :
          fs = [p \in (IF topThere THEN {Name} ELSE {}) \cup (IF fbThere THEN {Qualified} ELSE {})
                  |-> IF (p = Name) = atTop THEN sd ELSE OtherDir]
    /\ args \in [savefile : {Name, Qualified}, width : {NoArg}, npeaks : {NoArg}]
    /\ Start

\* A complete directory, any display options.
InitView ==
    /\ \E sd \in ValidDirs : fs = [p \in {Name} |-> sd]
    /\ args \in [savefile : {Name},
                 width : {NoArg} \cup {Arg(v) : v \in 0..(MaxW + 1)},
                 npeaks : {NoArg} \cup {Arg(n) : n \in 1..MaxPeaks}]
    /\ Start

Init == InitLoad \/ InitView

\* ---------------------------------------------- load_calculated_data
\* Resolve with the fallback root searched first.
ResolveFallbackFirst ==
    /\ pc = "resolve"
    /\ IF exists(join(FallbackRoot, directory))
       THEN /\ directory' = join(FallbackRoot, directory)
            /\ pc' = "l0"
            /\ UNCHANGED <<printed, ret>>
       ELSE IF exists(directory)
       THEN /\ pc' = "l0"
            /\ UNCHANGED <<directory, printed, ret>>
       ELSE /\ printed' = Append(printed, [msg |-> "Error could not find", path |-> directory, val |-> 0])
            /\ ret' = "None"
            /\ pc' = "unpack"
            /\ UNCHANGED directory
    /\ UNCHANGED <<fs, args, reads, l0, dl, w, spectrum, rows, cols, N, Delta, i, loaded, exc>>
    /\ UNCHANGED viewVars

\* Resolve without the return after the error message.
ResolveWithoutReturn ==
    /\ pc = "resolve"
    /\ IF exists(directory)
       THEN /\ pc' = "l0"
            /\ UNCHANGED <<directory, printed>>
       ELSE IF exists(join(FallbackRoot, directory))
       THEN /\ directory' = join(FallbackRoot, directory)
            /\ pc' = "l0"
            /\ UNCHANGED printed
       ELSE /\ printed' = Append(printed, [msg |-> "Error could not find", path |-> directory, val |-> 0])
            /\ pc' = "l0"
            /\ UNCHANGED directory
    /\ UNCHANGED <<fs, args, reads, l0, dl, w, spectrum, rows, cols, N, Delta, i, loaded, ret, exc>>
    /\ UNCHANGED viewVars

\* if not exists(directory): fall back to calculations/<directory>, else
\* print the error and return None
Resolve ==
    /\ pc = "resolve"
    /\ IF exists(directory)
       THEN /\ pc' = "l0"
            /\ UNCHANGED <<directory, printed, ret>>
       ELSE IF exists(join(FallbackRoot, directory))
       THEN /\ directory' = join(FallbackRoot, directory)
            /\ pc' = "l0"
            /\ UNCHANGED <<printed, ret>>
       ELSE /\ printed' = Append(printed, [msg |-> "Error could not find", path |-> directory, val |-> 0])
            /\ ret' = "None"
            /\ pc' = "unpack"
            /\ UNCHANGED directory
    /\ UNCHANGED <<fs, args, reads, l0, dl, w, spectrum, rows, cols, N, Delta, i, loaded, exc>>
    /\ UNCHANGED viewVars

\* One np.loadtxt(join(directory, file)) statement: the array read, or the
\* exception that ends the run.
ReadFile(file, line, next) ==
    LET p == FilePath(directory, file)
        e == LoadtxtError(p, line)
    IN /\ reads' = reads \cup {p}
       /\ IF e = NoExc
          THEN pc' = next /\ exc' = exc
          ELSE pc' = "failed" /\ exc' = e

LoadL0 ==
    /\ pc = "l0"
    /\ ReadFile(L0File, 50, "dl")
    /\ l0' = IF exc' = NoExc THEN Loadtxt(FilePath(directory, L0File)) ELSE l0
    /\ UNCHANGED <<fs, args, directory, dl, w, spectrum, rows, cols, N, Delta, i, loaded, ret, printed>>
    /\ UNCHANGED viewVars

LoadDl ==
    /\ pc = "dl"
    /\ ReadFile(DlFile, 51, "w")
    /\ dl' = IF exc' = NoExc THEN Loadtxt(FilePath(directory, DlFile)) ELSE dl
    /\ UNCHANGED <<fs, args, directory, l0, w, spectrum, rows, cols, N, Delta, i, loaded, ret, printed>>
    /\ UNCHANGED viewVars

LoadW ==
    /\ pc = "w"
    /\ ReadFile(WFile, 52, "spectrum")
    /\ w' = IF exc' = NoExc THEN Loadtxt(FilePath(directory, WFile)) ELSE w
    /\ UNCHANGED <<fs, args, directory, l0, dl, spectrum, rows, cols, N, Delta, i, loaded, ret, printed>>
    /\ UNCHANGED viewVars

LoadSpectrum ==
    /\ pc = "spectrum"
    /\ ReadFile(SpectrumFile, 53, "alloc")
    /\ spectrum' = IF exc' = NoExc THEN Loadtxt(FilePath(directory, SpectrumFile)) ELSE spectrum
    /\ UNCHANGED <<fs, args, directory, l0, dl, w, rows, cols, N, Delta, i, loaded, ret, printed>>
    /\ UNCHANGED viewVars

\* rows = dl.size; cols = l0.size; N = w.size; Delta = np.zeros((rows, cols, N))
Alloc ==
    /\ pc = "alloc"
    /\ rows' = Size(dl)
    /\ cols' = Size(l0)
    /\ N' = Size(w)
    /\ Delta' = [x \in Idx3(Size(dl), Size(l0), Size(w)) |-> 0]
    /\ i' = 0
    /\ loaded' = {}
    /\ pc' = "slices"
    /\ UNCHANGED <<fs, args, directory, reads, l0, dl, w, spectrum, ret, exc, printed>>
    /\ UNCHANGED viewVars

\* Delta[:,:,k:] = a: the assignment reaching the slices after k too.
AssignSliceOnward(grid, k, a) ==
    [x \in DOMAIN grid |-> IF x[3] >= k THEN BroadcastAt(a, x[1], x[2]) ELSE grid[x]]

\* Delta[:,:,k] = a: the grid with slice k overwritten by a, broadcast.
AssignSlice(grid, k, a) ==
    [x \in DOMAIN grid |-> IF x[3] = k THEN BroadcastAt(a, x[1], x[2]) ELSE grid[x]]

\* The loop body for index k: read Delta_k, assign it to slice k.
LoadSliceAt(k) ==
    LET p == FilePath(directory, DeltaFile(k))
        e == LoadtxtError(p, 59)
    IN /\ reads' = reads \cup {p}
       /\ IF e # NoExc
          THEN /\ pc' = "failed" /\ exc' = e
               /\ UNCHANGED <<Delta, i, loaded>>
          ELSE IF ~Broadcastable(Loadtxt(p).shape, rows, cols)
          THEN /\ pc' = "failed" /\ exc' = Raise("ValueError", 59, NoPath)
               /\ UNCHANGED <<Delta, i, loaded>>
          ELSE /\ Delta' = AssignSlice(Delta, k, Loadtxt(p))
               /\ i' = i + 1
               /\ loaded' = loaded \cup {k}
               /\ UNCHANGED <<pc, exc>>
       /\ UNCHANGED <<fs, args, directory, l0, dl, w, spectrum, rows, cols, N, ret, printed>>
       /\ UNCHANGED viewVars

\* for i in range(N): Delta[:,:,i] = np.loadtxt(join(directory, 'Delta_' + str(i) + '.txt'))
LoadSlice ==
    /\ pc = "slices"
    /\ i < N
    /\ LoadSliceAt(i)

\* return [l0, dl, w, Delta], spectrum
Return ==
    /\ pc = "slices"
    /\ i = N
    /\ ret' = "tuple"
    /\ pc' = "unpack"
    /\ UNCHANGED <<fs, args, directory, reads, l0, dl, w, spectrum, rows, cols, N, Delta, i, loaded, exc, printed>>
    /\ UNCHANGED viewVars

\* ------------------------------------------------------ script body
\* calc_data, spectrum = load_calculated_data(directory); [l0, dl, w, Delta] = calc_data
\* Unpacking None raises TypeError.
Unpack ==
    /\ pc = "unpack"
    /\ IF ret = "None"
       THEN pc' = "failed" /\ exc' = Raise("TypeError", 85, NoPath)
       ELSE pc' = "options" /\ exc' = exc
    /\ UNCHANGED <<fs, args, printed>>
    /\ UNCHANGED loadVars
    /\ UNCHANGED viewVars

\* display_width = np.max(w) unless -w is given; npeaks = 2 unless -n is given
SetOptions ==
    /\ pc = "options"
    /\ display_width' = IF args.width.given THEN args.width.val ELSE NpMax(w)
    /\ npeaks' = IF args.npeaks.given THEN args.npeaks.val ELSE DefaultPeaks
    /\ pc' = "peaks"
    /\ UNCHANGED <<fs, args, exc, printed, peak, wi, d, j, drawn>>
    /\ UNCHANGED loadVars

\* find_optimum_peaks(l0, dl, w, Delta, npeaks): for each of npeaks peaks a
\* table with one row (value, center, width) per tertiary sample.
find_optimum_peaks(n, np) ==
    [jj \in 0..(np - 1) |->
        [k \in 0..(n - 1) |-> [c \in 0..2 |-> IF c = 0 THEN 0
                                              ELSE IF c = 1 THEN 1 + jj + k
                                              ELSE 2 * (k + 1)]]]

FindPeaks ==
    /\ pc = "peaks"
    /\ peak' = find_optimum_peaks(N, npeaks)
    /\ pc' = "select"
    /\ UNCHANGED <<fs, args, exc, printed, display_width, npeaks, wi, d, j, drawn>>
    /\ UNCHANGED loadVars

\* np.searchsorted(a, v), side = 'left', by bisection over [lo, hi)
RECURSIVE Bisect(_, _, _, _)
Bisect(a, v, lo, hi) ==
    IF lo >= hi THEN lo
    ELSE LET mid == lo + ((hi - lo) \div 2)
         IN IF a.val[<<mid>>] < v THEN Bisect(a, v, mid + 1, hi)
            ELSE Bisect(a, v, lo, mid)

searchsorted(a, v) == Bisect(a, v, 0, a.shape[1])

\* wi = np.searchsorted(w, display_width); a 0-d array (a one-sample axis
\* as np.loadtxt returns it) is refused with ValueError.
Select ==
    /\ pc = "select"
    /\ IF Len(w.shape) # 1
       THEN pc' = "failed" /\ exc' = Raise("ValueError", 101, NoPath) /\ wi' = wi
       ELSE pc' = "printw" /\ exc' = exc /\ wi' = searchsorted(w, display_width)
    /\ UNCHANGED <<fs, args, printed, display_width, npeaks, peak, d, j, drawn>>
    /\ UNCHANGED loadVars

\* print("Displaying w = " + str(w[wi]) + " nm"); print(list(w))
PrintW ==
    /\ pc = "printw"
    /\ IF <<wi>> \notin DOMAIN w.val
       THEN pc' = "failed" /\ exc' = Raise("IndexError", 103, NoPath) /\ printed' = printed
       ELSE /\ pc' = "normalize" /\ exc' = exc
            /\ printed' = printed \o <<[msg |-> "Displaying w", path |-> <<>>, val |-> w.val[<<wi>>]],
                                       [msg |-> "Calculated values of w", path |-> <<>>, val |-> 0]>>
    /\ UNCHANGED <<fs, args>>
    /\ UNCHANGED loadVars
    /\ UNCHANGED viewVars

\* Floating-point x / m, kept as the pair; 0/0 is NaN.
Div(x, m) == [num |-> x, den |-> m]

IsNaN(q) == q.den = 0 /\ q.num = 0

\* Delta[:,:,k]
Slice(grid, nr, nc, k) == [x \in Idx2(nr, nc) |-> grid[<<x[1], x[2], k>>]]

\* d = Delta[:,:,wi]/np.max(Delta[:,:,wi])
Normalized(sl) ==
    LET m == CHOOSE y \in Range(sl) : \A x \in Range(sl) : x <= y
    IN [x \in DOMAIN sl |-> Div(sl[x], m)]

Normalize ==
    /\ pc = "normalize"
    /\ d' = Normalized(Slice(Delta, rows, cols, wi))
    /\ pc' = "imshow"
    /\ UNCHANGED <<fs, args, exc, printed, display_width, npeaks, peak, wi, j, drawn>>
    /\ UNCHANGED loadVars

\* np.flipud
flipud(m, nr) == [x \in DOMAIN m |-> m[<<nr - 1 - x[1], x[2]>>]]

Draw(op, jj, x, y, c, data) == [op |-> op, j |-> jj, x |-> x, y |-> y, c |-> c, data |-> data]

\* ax1.imshow(np.flipud(d), ..., extent=(min l0, max l0, min dl, max dl))
Imshow ==
    /\ pc = "imshow"
    /\ drawn' = Append(drawn, Draw("imshow", -1, <<NpMin(l0), NpMax(l0)>>, <<NpMin(dl), NpMax(dl)>>,
                                   -1, flipud(d, rows)))
    /\ j' = 0
    /\ pc' = "markers"
    /\ UNCHANGED <<fs, args, exc, printed, display_width, npeaks, peak, wi, d>>
    /\ UNCHANGED loadVars

\* for j in range(npeaks): ax1.plot(peak[j][wi,1], peak[j][wi,2], 'o', c=clrs[j])
PlotMarker ==
    /\ pc = "markers"
    /\ j < npeaks
    /\ IF j \notin DOMAIN peak \/ j \notin DOMAIN clrs
       THEN pc' = "failed" /\ exc' = Raise("IndexError", 117, NoPath) /\ UNCHANGED <<j, drawn>>
       ELSE /\ drawn' = Append(drawn, Draw("marker", j, peak[j][wi][1], peak[j][wi][2], clrs[j], <<>>))
            /\ j' = j + 1
            /\ UNCHANGED <<pc, exc>>
    /\ UNCHANGED <<fs, args, printed, display_width, npeaks, peak, wi, d>>
    /\ UNCHANGED loadVars

\* ax2.plot(spectrum[:,0], spectrum[:,1]/np.max(spectrum[:,1]), '-k')
PlotSpectrum ==
    /\ pc = "markers"
    /\ j = npeaks
    /\ LET col == [x \in Idx1(spectrum.shape[1]) |-> spectrum.val[<<x[1], 1>>]]
       IN drawn' = Append(drawn, Draw("spectrum", -1, 0, 0, -1, Normalized(col)))
    /\ j' = 0
    /\ pc' = "curves"
    /\ UNCHANGED <<fs, args, exc, printed, display_width, npeaks, peak, wi, d>>
    /\ UNCHANGED loadVars

\* for j in range(npeaks): the two boundary curves gauss(xs, w[wi], center -/+ width/2)
\* and the two labels, in clrs[j].  Boundaries are kept doubled: 2*center -/+ width.
PlotCurves ==
    /\ pc = "curves"
    /\ j < npeaks
    /\ IF j \notin DOMAIN peak \/ j \notin DOMAIN clrs
       THEN pc' = "failed" /\ exc' = Raise("IndexError", 140, NoPath) /\ UNCHANGED <<j, drawn>>
       ELSE /\ drawn' = drawn \o
                 <<Draw("curve", j, 2 * peak[j][wi][1] - peak[j][wi][2], w.val[<<wi>>], clrs[j], <<>>),
                   Draw("curve", j, 2 * peak[j][wi][1] + peak[j][wi][2], w.val[<<wi>>], clrs[j], <<>>),
                   Draw("text", j, 2 * peak[j][wi][1] - peak[j][wi][2], peak[j][wi][1], clrs[j], <<>>),
                   Draw("text", j, 2 * peak[j][wi][1] - peak[j][wi][2], peak[j][wi][2], clrs[j], <<>>)>>
            /\ j' = j + 1
            /\ UNCHANGED <<pc, exc>>
    /\ UNCHANGED <<fs, args, printed, display_width, npeaks, peak, wi, d>>
    /\ UNCHANGED loadVars

\* ax2.text(... w[wi] ...); fig1.show(); plt.show()
Show ==
    /\ pc = "curves"
    /\ j = npeaks
    /\ pc' = "shown"
    /\ UNCHANGED <<fs, args, exc, printed>>
    /\ UNCHANGED loadVars
    /\ UNCHANGED viewVars

Script ==
    \/ Unpack \/ SetOptions \/ FindPeaks \/ Select \/ PrintW \/ Normalize
    \/ Imshow \/ PlotMarker \/ PlotSpectrum \/ PlotCurves \/ Show

Next ==
    \/ Resolve \/ LoadL0 \/ LoadDl \/ LoadW \/ LoadSpectrum \/ Alloc
    \/ LoadSlice \/ Return
    \/ Script

Spec == Init /\ [][Next]_vars

\* The slice loop with its iterations taken in any order.
LoadSliceAnyOrder ==
    /\ pc = "slices"
    /\ \E k \in (0..(N - 1)) \ loaded : LoadSliceAt(k)

NextAnyOrder ==
    \/ Resolve \/ LoadL0 \/ LoadDl \/ LoadW \/ LoadSpectrum \/ Alloc
    \/ LoadSliceAnyOrder \/ Return
    \/ Script

SpecAnyOrder == Init /\ [][NextAnyOrder]_vars

\* ----------------------------------------- the loader as a function
\* load_calculated_data(p) for a directory p that exists as given, as one
\* evaluation: the first exception raised, or the five values returned.
RECURSIVE LoadSlices(_, _, _, _, _, _)
LoadSlices(p, grid, k, n, nr, nc) ==
    IF k = n THEN [exc |-> NoExc, Delta |-> grid]
    ELSE LET q == FilePath(p, DeltaFile(k))
             e == LoadtxtError(q, 59)
         IN IF e # NoExc THEN [exc |-> e, Delta |-> grid]
            ELSE IF ~Broadcastable(Loadtxt(q).shape, nr, nc)
            THEN [exc |-> Raise("ValueError", 59, NoPath), Delta |-> grid]
            ELSE LoadSlices(p, AssignSlice(grid, k, Loadtxt(q)), k + 1, n, nr, nc)

Failure(e) ==
    [ret |-> "pending", exc |-> e, l0 |-> NoArray, dl |-> NoArray, w |-> NoArray,
     spectrum |-> NoArray, Delta |-> [x \in {} |-> 0]]

LoadDirect(p) ==
    LET e0 == LoadtxtError(FilePath(p, L0File), 50)
        e1 == LoadtxtError(FilePath(p, DlFile), 51)
        e2 == LoadtxtError(FilePath(p, WFile), 52)
        e3 == LoadtxtError(FilePath(p, SpectrumFile), 53)
    IN IF e0 # NoExc THEN Failure(e0)
       ELSE IF e1 # NoExc THEN Failure(e1)
       ELSE IF e2 # NoExc THEN Failure(e2)
       ELSE IF e3 # NoExc THEN Failure(e3)
       ELSE LET a0 == Loadtxt(FilePath(p, L0File))
                a1 == Loadtxt(FilePath(p, DlFile))
                a2 == Loadtxt(FilePath(p, WFile))
                sl == LoadSlices(p, [x \in Idx3(Size(a1), Size(a0), Size(a2)) |-> 0],
                                 0, Size(a2), Size(a1), Size(a0))
            IN IF sl.exc # NoExc THEN Failure(sl.exc)
               ELSE [ret |-> "tuple", exc |-> NoExc, l0 |-> a0, dl |-> a1, w |-> a2,
                     spectrum |-> Loadtxt(FilePath(p, SpectrumFile)), Delta |-> sl.Delta]

\* ------------------------------------------------- vocabulary of the claims
\* load_calculated_data has returned or raised.
LoadFinished == pc \notin {"resolve", "l0", "dl", "w", "spectrum", "alloc", "slices"}

LoadFailed == pc = "failed" /\ exc.line \in 50..59

\* np.searchsorted has been called.
SelectDone ==
    \/ pc \in {"printw", "normalize", "imshow", "markers", "curves", "shown"}
    \/ pc = "failed" /\ exc.line >= 101

NormalizeDone == pc \in {"imshow", "markers", "curves", "shown"} \/ (pc = "failed" /\ exc.line > 112)

\* The directory the resolution policy designates, when there is one.
Fallback == <<"calculations">> \o args.savefile

Found == args.savefile \in DOMAIN fs \/ Fallback \in DOMAIN fs

Designated == IF args.savefile \in DOMAIN fs THEN args.savefile ELSE Fallback

\* The table a file of the designated directory holds.
Holds(f) == fs[Designated][f]

Present(f) == f \in DOMAIN fs[Designated] /\ Holds(f).numeric

AxesPresent == Present(L0File) /\ Present(DlFile) /\ Present(WFile) /\ Present(SpectrumFile)

\* |l0|, |dl|, |w| as the axis files give them.
LenL0 == Holds(L0File).nr * Holds(L0File).nc

LenDl == Holds(DlFile).nr * Holds(DlFile).nc

LenW == Holds(WFile).nr * Holds(WFile).nc

\* Every required file is present, numeric and of the documented shape.
WellShaped ==
    /\ Found
    /\ AxesPresent
    /\ \A k \in 0..(LenW - 1) :
          /\ Present(DeltaFile(k))
          /\ Holds(DeltaFile(k)).nr = LenDl
          /\ Holds(DeltaFile(k)).nc = LenL0

\* The samples of an axis, whatever its number of dimensions.
AxisVals(a) ==
    IF Len(a.shape) = 0 THEN [k \in {0} |-> a.val[<<>>]]
    ELSE [k \in 0..(a.shape[1] - 1) |-> a.val[<<k>>]]

\* ------------------------------------------------------------ claims
\* The grid of a finished load holds, element for element, the slice files.
GridHoldsTheFiles ==
    /\ ret = "tuple"
    /\ DOMAIN Delta = Idx3(LenDl, LenL0, LenW)
    /\ \A x \in DOMAIN Delta : Delta[x] = Holds(DeltaFile(x[3])).cell[<<x[1], x[2]>>]
    /\ \A k \in 0..(LenW - 1) : Slice(Delta, LenDl, LenL0, k) = Holds(DeltaFile(k)).cell

\* C1: for every directory whose required files are all present and
\* well-shaped, the load returns a grid of shape (|dl|, |l0|, |w|) whose
\* element (row, col, i) is the value at (row, col) of file Delta_i, so that
\* slice i re-extracted is Delta_i exactly.
C1_ValidDirectoryLoads == (WellShaped /\ LoadFinished) => GridHoldsTheFiles

\* The same, for the directories whose slices np.loadtxt does not squeeze
\* to a column: more than one l0 sample, or a single dl sample.
C1_LoadsUnlessOneColumn ==
    (WellShaped /\ LoadFinished /\ (LenL0 > 1 \/ LenDl = 1)) => GridHoldsTheFiles

C1_OneColumnFails ==
    (WellShaped /\ LoadFinished /\ LenL0 = 1 /\ LenDl > 1) => (LoadFailed /\ exc.line = 59)

\* C2: no requested tertiary value makes the selection fail: the selected
\* index always lies in [0, |w|), a request above the maximum selects
\* |w| - 1 and one below the minimum selects 0.
\* It is stated for the axes of two or more samples, which np.searchsorted
\* accepts.
C2_SelectionNeverFails ==
    N >= 2 =>
        /\ (pc = "failed" => exc.line \notin {101, 103})
        /\ SelectDone =>
              /\ wi \in 0..(N - 1)
              /\ display_width > NpMax(w) => wi = N - 1
              /\ display_width < NpMin(w) => wi = 0

\* What does hold of a request outside the axis: below the minimum index 0
\* is selected, above the maximum index |w|, one past the end, and
\* w[wi] raises IndexError.
C2_AboveMaximumFails ==
    (N >= 2 /\ SelectDone) =>
        /\ display_width < NpMin(w) => wi = 0
        /\ display_width > NpMax(w) =>
              (wi = N /\ pc \in {"printw", "failed"} /\ (pc = "failed" => exc.line = 103))
        /\ display_width <= NpMax(w) => (wi \in 0..(N - 1) /\ exc.line \notin {101, 103})

\* The least index whose sample is at or after v.
LeastAtOrAfter(a, v) ==
    CHOOSE k \in DOMAIN AxisVals(a) :
        /\ AxisVals(a)[k] >= v
        /\ \A m \in DOMAIN AxisVals(a) : AxisVals(a)[m] >= v => k <= m

StrictlyAscending(a) ==
    \A m, n \in DOMAIN AxisVals(a) : m < n => AxisVals(a)[m] < AxisVals(a)[n]

\* C3: on a strictly ascending axis a request within [min(w), max(w)]
\* selects the least index whose sample is at or after it, the selection
\* is monotonic in the request, and with no request the last index is
\* selected.
C3_SelectsLeastAtOrAfter ==
    (SelectDone /\ StrictlyAscending(w)) =>
        /\ (NpMin(w) <= display_width /\ display_width <= NpMax(w))
              => wi = LeastAtOrAfter(w, display_width)
        /\ ~args.width.given => (display_width = NpMax(w) /\ wi = N - 1)
        /\ Len(w.shape) = 1 =>
              \A v1, v2 \in 0..(MaxW + 1) :
                  v1 <= v2 => searchsorted(w, v1) <= searchsorted(w, v2)

\* The same for an axis of two or more samples.
C3_HoldsFromTwoSamples == N >= 2 => C3_SelectsLeastAtOrAfter

\* What the run holds once the load has finished, as LoadDirect gives it.
LoadOutcome ==
    IF ret = "tuple"
    THEN [ret |-> ret, exc |-> NoExc, l0 |-> l0, dl |-> dl, w |-> w, spectrum |-> spectrum,
          Delta |-> Delta]
    ELSE Failure(exc)

\* C4: a directory that exists as given is used, also when one of the same
\* name exists under 'calculations'; one that exists only under
\* 'calculations' is loaded from there, with the outcome (axes, grid and
\* spectrum) of loading calculations/<name> given as the path.
C4_ResolutionOrdered ==
    pc # "resolve" =>
        /\ args.savefile \in DOMAIN fs =>
              /\ directory = args.savefile
              /\ \A p \in reads : p.dir = args.savefile
        /\ (args.savefile \notin DOMAIN fs /\ Fallback \in DOMAIN fs) =>
              /\ directory = Fallback
              /\ \A p \in reads : p.dir = Fallback
              /\ (ret = "tuple" \/ LoadFailed) => LoadOutcome = LoadDirect(Fallback)

C4_FallbackLoaded ==
    /\ args.savefile = Name
    /\ Name \notin DOMAIN fs
    /\ Qualified \in DOMAIN fs
    /\ ret = "tuple"
    /\ N = MaxN
    /\ \E x \in DOMAIN Delta : Delta[x] # 0

\* Both directories exist and the one given is the one read.
C4_GivenPreferred ==
    /\ args.savefile = Name
    /\ {Name, Qualified} \subseteq DOMAIN fs
    /\ fs[Name] # fs[Qualified]
    /\ ret = "tuple"
    /\ Delta = LoadDirect(Name).Delta
    /\ Delta # LoadDirect(Qualified).Delta

Required ==
    {L0File, DlFile, WFile, SpectrumFile}
    \cup (IF Present(WFile) THEN {DeltaFile(k) : k \in 0..(LenW - 1)} ELSE {})

Unreadable == {f \in Required : ~Present(f)}

\* The statement a traceback line names, for the lines that read one fixed file.
LineReads(line) ==
    IF line = 50 THEN L0File
    ELSE IF line = 51 THEN DlFile
    ELSE IF line = 52 THEN WFile
    ELSE IF line = 53 THEN SpectrumFile
    ELSE NoFile

\* An exception identifies file f by its message or by the statement it left.
Identifies(e, f) == e.path = FilePath(Designated, f) \/ LineReads(e.line) = f

\* C6: if any required file is missing or malformed the load fails with an
\* error that identifies the offending file, and no grid is returned.
C6_FailureNamesTheFile ==
    (Found /\ LoadFinished /\ Unreadable # {}) =>
        /\ LoadFailed
        /\ ret = "pending"
        /\ \E f \in Unreadable : Identifies(exc, f)

\* The part that holds: the load fails and returns nothing.
C6_AllOrNothing ==
    (Found /\ LoadFinished /\ Unreadable # {}) => (LoadFailed /\ ret = "pending")

\* The slice files whose table is not rows x cols.
MisShaped ==
    {k \in 0..(LenW - 1) :
        Present(DeltaFile(k))
        /\ <<Holds(DeltaFile(k)).nr, Holds(DeltaFile(k)).nc>> # <<LenDl, LenL0>>}

\* C7: a slice file whose shape is not rows x cols (a single row, a single
\* column, a single value) makes the load fail and return no grid.
C7_ShapeMismatchFails ==
    (Found /\ AxesPresent /\ LoadFinished /\ MisShaped # {}) =>
        (LoadFailed /\ ret = "pending")

\* The mis-shaped files that are refused are those that do not broadcast.
C7_FailsUnlessBroadcastable ==
    (Found /\ AxesPresent /\ LoadFinished /\ Unreadable = {}) =>
        (LoadFailed <=> \E k \in 0..(LenW - 1) :
                            ~Broadcastable(Squeeze(Holds(DeltaFile(k))).shape, LenDl, LenL0))

\* np.max / np.min of an array of quotients: NaN if any element is NaN.
HasNaN(m) == \E x \in DOMAIN m : IsNaN(m[x])

MaxIsOne(m) ==
    /\ ~HasNaN(m)
    /\ \A x \in DOMAIN m : m[x].den > 0 /\ m[x].num <= m[x].den
    /\ \E x \in DOMAIN m : m[x].num = m[x].den

MinIsNonNegative(m) == ~HasNaN(m) /\ \A x \in DOMAIN m : m[x].den > 0 /\ m[x].num >= 0

\* C8: the displayed slice is the selected slice of the grid divided by its
\* own maximum; on a non-negative grid, an all-zero slice included, its
\* maximum is 1 and its minimum is at least 0.
C8_DisplayedSliceSpansUnit ==
    (NormalizeDone /\ \A x \in DOMAIN Delta : Delta[x] >= 0) =>
        /\ DOMAIN d = Idx2(rows, cols)
        /\ \A x \in DOMAIN d :
              /\ d[x].num = Delta[<<x[1], x[2], wi>>]
              /\ \A y \in DOMAIN d : d[x].den >= Delta[<<y[1], y[2], wi>>]
              /\ \E y \in DOMAIN d : d[x].den = Delta[<<y[1], y[2], wi>>]
        /\ MaxIsOne(d)
        /\ MinIsNonNegative(d)

\* The same for the slices that hold a positive value.
C8_HoldsUnlessAllZero ==
    (\E x \in DOMAIN d : Delta[<<x[1], x[2], wi>>] > 0) => C8_DisplayedSliceSpansUnit

C8_AllZeroIsNaN ==
    (NormalizeDone /\ \A x \in DOMAIN d : Delta[<<x[1], x[2], wi>>] = 0) =>
        \A x \in DOMAIN d : IsNaN(d[x])

\* The calls drawn for peak jj.
DrawnFor(op, jj) == {n \in 1..Len(drawn) : drawn[n].op = op /\ drawn[n].j = jj}

\* C9: for every peak_count >= 1 the rendering completes, and for every
\* peak j it has drawn one marker at (center, width) of peak j at the
\* selected index and both boundary curves, in palette[j mod 6].
C9_EveryPeakDrawn ==
    /\ pc = "failed" => exc.line \notin {117, 140}
    /\ pc = "shown" =>
          \A jj \in 0..(npeaks - 1) :
              /\ Cardinality(DrawnFor("marker", jj)) = 1
              /\ \A n \in DrawnFor("marker", jj) :
                    /\ drawn[n].x = peak[jj][wi][1]
                    /\ drawn[n].y = peak[jj][wi][2]
                    /\ drawn[n].c = clrs[jj % 6]
              /\ {drawn[n].x : n \in DrawnFor("curve", jj)}
                    = {2 * peak[jj][wi][1] - peak[jj][wi][2], 2 * peak[jj][wi][1] + peak[jj][wi][2]}
              /\ Cardinality(DrawnFor("curve", jj)) = 2
              /\ \A n \in DrawnFor("curve", jj) : drawn[n].c = clrs[jj % 6]

\* The same for the peak counts within the palette.
C9_HoldsWithinPalette == npeaks <= 6 => C9_EveryPeakDrawn

C9_BeyondPaletteFails ==
    (npeaks > 6 /\ pc \in {"curves", "shown", "failed"} /\ ~(pc = "failed" /\ exc.line < 117)) =>
        (pc = "failed" /\ exc.line = 117 /\ j = 6)

\* C10: a slice load writes the elements of its own slice only, so the
\* grid returned is the same in whatever order the slices are loaded: the
\* one the ascending loop builds.
C10_SlicesIndependent ==
    /\ [][(pc = "slices" /\ loaded' # loaded) =>
             \E k \in loaded' \ loaded :
                 \A x \in DOMAIN Delta : x[3] # k => Delta'[x] = Delta[x]]_vars
    /\ [](ret = "tuple" => Delta = LoadDirect(directory).Delta)

C10_LoadedOutOfOrder ==
    /\ pc = "slices"
    /\ N = MaxN
    /\ loaded = {N - 1}
    /\ \E x \in DOMAIN Delta : Delta[x] # 0

=============================================================================
